---------------------------- MODULE Spec2Model ----------------------------
(***************************************************************************)
(* Model of the two editor extensions of the repository:                   *)
(*   - the goto-line dialog (createLineDialog / go / dialogField /         *)
(*     gotoLine), specification SpecGoto;                                  *)
(*   - the selection-match highlighter (wordAt / matchHighlighter),        *)
(*     specification SpecHL.                                               *)
(* Documents are sequences of one-character strings; offsets are the       *)
(* zero-based offsets of the code, so the character at offset i is         *)
(* doc[i + 1].                                                             *)
(***************************************************************************)
EXTENDS Integers, Sequences, FiniteSets, TLC

VARIABLES
  doc,            \* state.doc
  selRanges,      \* state.selection.ranges: sequence of [anchor, head]
  dialog,         \* dialogField: [present] once it is configured, and its boolean [value]
  input,          \* input.value of the open dialog's <input>
  focus,          \* which element holds the focus: "editor" or "input"
  lastEvent,      \* history: the most recent event handled
  lastProto,      \* history: the most recent event other than a rejected submit or typing
  lastTx,         \* history: the transaction the most recent handler dispatched
  pre,            \* history: selection head and dialog flag on entry to that handler
  lastGo,         \* history: input.value read by the most recent call of go()
  conf,           \* state.facet(highlightConfig)
  visibleRanges,  \* view.visibleRanges
  decorations     \* matchHighlighter.decorations

vars == <<doc, selRanges, dialog, input, focus, lastEvent, lastProto, lastTx,
          pre, lastGo, conf, visibleRanges, decorations>>

gotoVars == <<dialog, input, focus, lastEvent, lastProto, lastTx, pre, lastGo>>
hlVars == <<conf, visibleRanges, decorations>>

----------------------------------------------------------------------------
(* Bounds of the model                                                     *)

MaxGotoDocLen == 2
MaxInputLen == 4
MaxDocLen == 3
MaxMinSelectionLength == 2
MaxMaxMatches == 2

NL == "\n"
GotoDocChars == {"a", NL}
\* A document of six empty lines
TallDoc == <<NL, NL, NL, NL, NL>>
\* The class \d
Digits == {"0", "1", "2", "3", "4", "5", "6", "7", "8", "9"}
InputChars == {"+", "-", ":", "%", "x", "2", "5"}

\* Characters of the highlighter's documents
HLChars == {"a", " ", NL}
\* A document in which a word also begins a longer word: "foo foobar"
CompoundDoc == <<"f", "o", "o", " ", "f", "o", "o", "b", "a", "r">>

\* The document of the specification's first scenario: "foo bar foo"
ScenarioDoc == <<"f", "o", "o", " ", "b", "a", "r", " ", "f", "o", "o">>

Max(a, b) == IF a >= b THEN a ELSE b
Min(a, b) == IF a <= b THEN a ELSE b

SeqsUpTo(S, n) == UNION {[1..k -> S] : k \in 0..n}

----------------------------------------------------------------------------
(* Text: lines, lineAt, line                                               *)

\* doc.length
DocLength(d) == Len(d)

\* doc.lines: one more than the number of line breaks
DocLines(d) == Cardinality({i \in 1..Len(d) : d[i] = NL}) + 1

\* state.sliceDoc(from, to)
SliceDoc(d, from, to) == SubSeq(d, Max(from, 0) + 1, Min(to, Len(d)))

\* The Line record {from, to, number, length, text} of the line starting at from
MkLine(d, from) ==
  LET to == CHOOSE k \in from..Len(d) :
              /\ (k = Len(d) \/ d[k + 1] = NL)
              /\ \A j \in from..(k - 1) : d[j + 1] # NL
  IN [from |-> from, to |-> to,
      number |-> Cardinality({i \in 1..from : d[i] = NL}) + 1,
      length |-> to - from,
      text |-> SubSeq(d, from + 1, to)]

\* doc.lineAt(pos): the line that holds offset pos
LineAt(d, pos) ==
  LET from == CHOOSE k \in 0..pos :
                /\ (k = 0 \/ d[k] = NL)
                /\ \A j \in (k + 1)..pos : d[j] # NL
  IN MkLine(d, from)

\* doc.line(n): the line numbered n, 1 <= n <= doc.lines
DocLine(d, n) ==
  LET from == CHOOSE k \in 0..Len(d) :
                /\ (k = 0 \/ d[k] = NL)
                /\ Cardinality({i \in 1..k : d[i] = NL}) = n - 1
  IN MkLine(d, from)

\* EditorSelection.cursor(pos)
Cursor(pos) == [anchor |-> pos, head |-> pos]

\* selection.main (the model keeps the main range first)
SelMain == selRanges[1]
RangeFrom(r) == Min(r.anchor, r.head)
RangeTo(r) == Max(r.anchor, r.head)
RangeEmpty(r) == r.anchor = r.head

----------------------------------------------------------------------------
(* Goto-line: the grammar /^([+-])?(\d+)?(:\d+)?(%)?$/                      *)

\* A group that took no part in the match
Undefined == <<>>

\* The end of the longest run of digits of s that starts after index i
RECURSIVE DigitsEnd(_, _)
DigitsEnd(s, i) ==
  IF i < Len(s) /\ s[i + 1] \in Digits THEN DigitsEnd(s, i + 1) ELSE i

\* Exec without the anchor $: whatever follows the groups is ignored
Exec_NoEndAnchor(s) ==
  LET i1 == IF Len(s) >= 1 /\ s[1] \in {"+", "-"} THEN 1 ELSE 0
      i2 == DigitsEnd(s, i1)
      i3 == IF i2 < Len(s) /\ s[i2 + 1] = ":" /\ DigitsEnd(s, i2 + 1) > i2 + 1
            THEN DigitsEnd(s, i2 + 1) ELSE i2
      i4 == IF i3 < Len(s) /\ s[i3 + 1] = "%" THEN i3 + 1 ELSE i3
  IN [ok |-> TRUE,
      sign |-> SubSeq(s, 1, i1),
      ln |-> SubSeq(s, i1 + 1, i2),
      cl |-> SubSeq(s, i2 + 1, i3),
      percent |-> SubSeq(s, i3 + 1, i4)]

\* RegExp.exec: [ok] tells whether the input matched, and then the groups are
\* [sign, ln, cl, percent] (null is [ok |-> FALSE]).  Every group
\* is greedy and optional, and no shorter choice can make a later group
\* match, so one left-to-right pass decides.
Exec(s) ==
  LET i1 == IF Len(s) >= 1 /\ s[1] \in {"+", "-"} THEN 1 ELSE 0
      i2 == DigitsEnd(s, i1)
      i3 == IF i2 < Len(s) /\ s[i2 + 1] = ":" /\ DigitsEnd(s, i2 + 1) > i2 + 1
            THEN DigitsEnd(s, i2 + 1) ELSE i2
      i4 == IF i3 < Len(s) /\ s[i3 + 1] = "%" THEN i3 + 1 ELSE i3
  IN IF i4 # Len(s)
     THEN [ok |-> FALSE, sign |-> Undefined, ln |-> Undefined, cl |-> Undefined,
           percent |-> Undefined]
     ELSE [ok |-> TRUE,
           sign |-> SubSeq(s, 1, i1),
           ln |-> SubSeq(s, i1 + 1, i2),
           cl |-> SubSeq(s, i2 + 1, i3),
           percent |-> SubSeq(s, i3 + 1, i4)]

DigitValue(c) ==
  CASE c = "0" -> 0 [] c = "1" -> 1 [] c = "2" -> 2 [] c = "3" -> 3 [] c = "4" -> 4
    [] c = "5" -> 5 [] c = "6" -> 6 [] c = "7" -> 7 [] c = "8" -> 8 [] c = "9" -> 9

\* Unary plus on a string of decimal digits
RECURSIVE ToNumber(_)
ToNumber(s) ==
  IF s = <<>> THEN 0
  ELSE 10 * ToNumber(SubSeq(s, 1, Len(s) - 1)) + DigitValue(s[Len(s)])

----------------------------------------------------------------------------
(* JavaScript numbers.  A number is an IEEE-754 double: here               *)
(* [neg, man, exp] stands for (-1)^neg * man * 2^exp, with man a natural   *)
(* number of at most 53 bits.  Naturals of that size are written as        *)
(* sequences of 15-bit limbs, lowest first, without leading zero limbs     *)
(* (<<>> is 0).  Every operation rounds its exact result to the nearest    *)
(* double, ties to even.  The values of the model stay far from the        *)
(* subnormal and the infinite ranges, and integer operands stay below      *)
(* 2^15 (divisors, factors) and 2^30 (dividends).                          *)

MantissaBits == 53
LimbBits == 15
LimbBase == 2 ^ LimbBits

\* The number of bits of k, 0 <= k < 2^30
BitLen(k) == CHOOSE n \in 0..30 : k < 2 ^ n /\ (n = 0 \/ 2 ^ (n - 1) <= k)

RECURSIVE TrimLimbs(_)
TrimLimbs(b) ==
  IF b # <<>> /\ b[Len(b)] = 0 THEN TrimLimbs(SubSeq(b, 1, Len(b) - 1)) ELSE b

NatToBig(k) ==
  TrimLimbs(<<k % LimbBase, (k \div LimbBase) % LimbBase,
              k \div (LimbBase * LimbBase)>>)

RECURSIVE BigToNat(_)
BigToNat(b) == IF b = <<>> THEN 0 ELSE b[1] + LimbBase * BigToNat(Tail(b))

BigBitLen(b) ==
  IF b = <<>> THEN 0 ELSE LimbBits * (Len(b) - 1) + BitLen(b[Len(b)])

RECURSIVE BigAdd(_, _, _)
BigAdd(a, b, carry) ==
  IF a = <<>> /\ b = <<>> THEN (IF carry = 1 THEN <<1>> ELSE <<>>)
  ELSE LET x == IF a = <<>> THEN 0 ELSE a[1]
           y == IF b = <<>> THEN 0 ELSE b[1]
           t == x + y + carry
       IN <<t % LimbBase>> \o BigAdd(IF a = <<>> THEN a ELSE Tail(a),
                                     IF b = <<>> THEN b ELSE Tail(b),
                                     t \div LimbBase)

\* a - b for a >= b, before trimming
RECURSIVE BigSub(_, _, _)
BigSub(a, b, borrow) ==
  IF a = <<>> THEN <<>>
  ELSE LET y == IF b = <<>> THEN 0 ELSE b[1]
           t == a[1] - y - borrow
       IN <<t % LimbBase>> \o BigSub(Tail(a), IF b = <<>> THEN b ELSE Tail(b),
                                     IF t < 0 THEN 1 ELSE 0)

\* a < b, for sequences without leading zero limbs
BigLess(a, b) ==
  \/ Len(a) < Len(b)
  \/ /\ Len(a) = Len(b)
     /\ \E i \in 1..Len(a) : /\ a[i] < b[i]
                             /\ \A j \in (i + 1)..Len(a) : a[j] = b[j]

\* b * n + carry for 0 <= n < 2^15
RECURSIVE BigMulSmall(_, _, _)
BigMulSmall(b, n, carry) ==
  IF b = <<>> THEN NatToBig(carry)
  ELSE LET t == b[1] * n + carry
       IN <<t % LimbBase>> \o BigMulSmall(Tail(b), n, t \div LimbBase)

\* Division of the limbs b[1..i] (with r carried down from the limbs above)
\* by q, 0 < q <= 2^15: [quot, rem]
RECURSIVE BigDivFrom(_, _, _, _, _)
BigDivFrom(b, i, r, q, acc) ==
  IF i = 0 THEN [quot |-> TrimLimbs(acc), rem |-> r]
  ELSE LET t == r * LimbBase + b[i]
       IN BigDivFrom(b, i - 1, t % q, q, <<t \div q>> \o acc)

BigDivSmall(b, q) == BigDivFrom(b, Len(b), 0, q, <<>>)

Zeros(k) == [i \in 1..k |-> 0]

\* b * 2^s
BigShiftLeft(b, s) ==
  IF b = <<>> THEN <<>>
  ELSE Zeros(s \div LimbBits) \o BigMulSmall(b, 2 ^ (s % LimbBits), 0)

\* b \div 2^s, and whether bits were lost: [quot, sticky]
BigShiftRight(b, s) ==
  LET dropped == Min(s \div LimbBits, Len(b))
      dv == BigDivSmall(SubSeq(b, dropped + 1, Len(b)), 2 ^ (s % LimbBits))
  IN [quot |-> dv.quot,
      sticky |-> dv.rem # 0 \/ \E i \in 1..dropped : b[i] # 0]

DblZero == [neg |-> FALSE, man |-> <<>>, exp |-> 0]

\* The double nearest to (-1)^neg * big * 2^exp (plus a little more when
\* sticky, meaning that the exact value lies strictly above), ties to even
RoundToDouble(neg, big, exp, sticky) ==
  LET d == BigBitLen(big) - MantissaBits
  IN IF big = <<>> THEN DblZero
     ELSE IF d <= 0 THEN [neg |-> neg, man |-> big, exp |-> exp]
     ELSE LET sh == BigShiftRight(big, d - 1)
              kept == BigDivSmall(sh.quot, 2).quot
              low == sticky \/ sh.sticky
              up == sh.quot[1] % 2 = 1 /\ (low \/ kept[1] % 2 = 1)
              man == IF up THEN BigAdd(kept, <<1>>, 0) ELSE kept
          IN IF BigBitLen(man) > MantissaBits
             THEN [neg |-> neg, man |-> BigDivSmall(man, 2).quot, exp |-> exp + d + 1]
             ELSE [neg |-> neg, man |-> man, exp |-> exp + d]

\* p / q for integers 0 <= p < 2^30 and 0 < q < 2^15
DblDivInt(p, q) ==
  LET k == MantissaBits + 1 + BitLen(q)
      res == BigDivSmall(BigShiftLeft(NatToBig(p), k), q)
  IN RoundToDouble(FALSE, res.quot, -k, res.rem # 0)

\* x * (-1) and x * 1
DblMulSign(x, factor) ==
  IF factor = -1 THEN [x EXCEPT !.neg = ~x.neg] ELSE x

\* x + y
DblAdd(x, y) ==
  IF x.man = <<>> THEN y
  ELSE IF y.man = <<>> THEN x
  ELSE LET e == Min(x.exp, y.exp)
           a == BigShiftLeft(x.man, x.exp - e)
           b == BigShiftLeft(y.man, y.exp - e)
       IN IF x.neg = y.neg THEN RoundToDouble(x.neg, BigAdd(a, b, 0), e, FALSE)
          ELSE IF a = b THEN DblZero
          ELSE IF BigLess(a, b)
          THEN RoundToDouble(y.neg, TrimLimbs(BigSub(b, a, 0)), e, FALSE)
          ELSE RoundToDouble(x.neg, TrimLimbs(BigSub(a, b, 0)), e, FALSE)

\* n * x for an integer 0 <= n < 2^15
DblMulInt(n, x) ==
  RoundToDouble(x.neg, TrimLimbs(BigMulSmall(x.man, n, 0)), x.exp, FALSE)

\* Math.round: the nearest integer, halves towards +infinity
MathRound(x) ==
  IF x.exp >= 0
  THEN (IF x.neg THEN -1 ELSE 1) * BigToNat(BigShiftLeft(x.man, x.exp))
  ELSE LET sh == BigShiftRight(x.man, -x.exp - 1)
           half == sh.quot # <<>> /\ sh.quot[1] % 2 = 1
           whole == BigToNat(BigDivSmall(sh.quot, 2).quot)
       IN IF x.neg THEN -(whole + (IF half /\ sh.sticky THEN 1 ELSE 0))
          ELSE whole + (IF half THEN 1 ELSE 0)

SignFactor(sign) == IF sign = <<"-">> THEN -1 ELSE 1

\* ResolveLine with line 1, not the current line, as the default
ResolveLine_DefaultFirstLine(m, startNumber, lines) ==
  LET line == IF m.ln # Undefined THEN ToNumber(m.ln) ELSE 1
  IN IF m.ln # Undefined /\ m.percent # Undefined
     THEN LET pc0 == DblDivInt(line, 100)
              pc == IF m.sign # Undefined
                    THEN DblAdd(DblMulSign(pc0, SignFactor(m.sign)),
                                DblDivInt(startNumber, lines))
                    ELSE pc0
          IN MathRound(DblMulInt(lines, pc))
     ELSE IF m.ln # Undefined /\ m.sign # Undefined
     THEN line * SignFactor(m.sign) + startNumber
     ELSE line

\* The number of the target line before it is clamped
ResolveLine(m, startNumber, lines) ==
  LET line == IF m.ln # Undefined THEN ToNumber(m.ln) ELSE startNumber
  IN IF m.ln # Undefined /\ m.percent # Undefined
     THEN LET pc0 == DblDivInt(line, 100)
              pc == IF m.sign # Undefined
                    THEN DblAdd(DblMulSign(pc0, SignFactor(m.sign)),
                                DblDivInt(startNumber, lines))
                    ELSE pc0
          IN MathRound(DblMulInt(lines, pc))
     ELSE IF m.ln # Undefined /\ m.sign # Undefined
     THEN line * SignFactor(m.sign) + startNumber
     ELSE line

\* col: the digits after the colon, 0 without them
ResolveCol(m) == IF m.cl # Undefined THEN ToNumber(Tail(m.cl)) ELSE 0

\* The line go() looks up: the resolved number clamped into 1..doc.lines
TargetLine(d, line) == DocLine(d, Max(1, Min(DocLines(d), line)))

\* TargetPos without the clamp of the column
TargetPos_NoColumnClamp(docLine, col) == docLine.from + col

\* The offset go() puts the cursor at
TargetPos(docLine, col) == docLine.from + Max(0, Min(col, docLine.length))

----------------------------------------------------------------------------
(* Goto-line: the dialog                                                   *)

\* A handler that dispatched nothing
NoTx == [dispatched |-> FALSE, effects |-> <<>>, selection |-> <<>>,
         scrollIntoView |-> FALSE, reconfigure |-> FALSE]
NoSnapshot == <<>>
NoGo == <<>>

Snapshot == <<[doc |-> doc, selRanges |-> selRanges, dialog |-> dialog,
              focus |-> focus]>>

\* DialogUpdate that ignores the effects
DialogUpdate_KeepValue(value, effects) == value

\* dialogField.update: the value of the last dialogEffect of the transaction
DialogUpdate(value, effects) ==
  IF effects = <<>> THEN value ELSE effects[Len(effects)]

\* The state after a transaction: reconfigure appends the field, created true
ApplyDialog(dlg, tx) ==
  LET present == dlg.present \/ tx.reconfigure
      value == IF dlg.present THEN dlg.value ELSE tx.reconfigure
  IN [present |-> present,
      value |-> IF present THEN DialogUpdate(value, tx.effects) ELSE FALSE]

\* getPanel(view, createLineDialog): the panel is shown while the field is true
PanelOpen == dialog.present /\ dialog.value

\* go(): the submit handler
Go ==
  LET match == Exec(input)
      startLine == LineAt(doc, SelMain.head)
  IN /\ UNCHANGED hlVars
     /\ pre' = Snapshot
     /\ lastGo' = <<[input |-> input, startLine |-> startLine.number]>>
     /\ IF ~match.ok
        THEN /\ lastEvent' = "rejected"
             /\ lastTx' = NoTx
             /\ UNCHANGED <<doc, selRanges, dialog, input, focus, lastProto>>
        ELSE LET docLine == TargetLine(doc, ResolveLine(match, startLine.number, DocLines(doc)))
                 tx == [dispatched |-> TRUE, effects |-> <<FALSE>>,
                        selection |-> <<Cursor(TargetPos(docLine, ResolveCol(match)))>>,
                        scrollIntoView |-> TRUE,
                        reconfigure |-> FALSE]
             IN /\ lastEvent' = "accepted"
                /\ lastProto' = "accepted"
                /\ lastTx' = tx
                /\ selRanges' = tx.selection
                /\ dialog' = ApplyDialog(dialog, tx)
                /\ input' = <<>>
                /\ focus' = "editor"
                /\ UNCHANGED doc

\* onkeydown with keyCode 27
KeyEscape ==
  /\ PanelOpen
  /\ LET tx == [dispatched |-> TRUE, effects |-> <<FALSE>>, selection |-> <<>>,
                scrollIntoView |-> FALSE, reconfigure |-> FALSE]
     IN /\ lastTx' = tx
        /\ dialog' = ApplyDialog(dialog, tx)
  /\ pre' = Snapshot
  /\ lastEvent' = "escape"
  /\ lastProto' = "escape"
  /\ input' = <<>>
  /\ focus' = "editor"
  /\ lastGo' = NoGo
  /\ UNCHANGED <<doc, selRanges>>
  /\ UNCHANGED hlVars

\* onkeydown with keyCode 13
KeyEnter == PanelOpen /\ Go

\* onsubmit (the "go" button)
Submit == PanelOpen /\ Go

\* The gotoLine command
GotoLine ==
  /\ pre' = Snapshot
  /\ lastEvent' = "gotoLine"
  /\ lastProto' = "gotoLine"
  /\ IF ~PanelOpen
     THEN LET tx == [dispatched |-> TRUE, effects |-> <<TRUE>>, selection |-> <<>>,
                     scrollIntoView |-> FALSE, reconfigure |-> ~dialog.present]
          IN /\ lastTx' = tx
             /\ dialog' = ApplyDialog(dialog, tx)
             /\ input' = <<>>
     ELSE /\ lastTx' = NoTx
          /\ UNCHANGED <<dialog, input>>
  /\ focus' = IF dialog'.present /\ dialog'.value THEN "input" ELSE focus
  /\ lastGo' = NoGo
  /\ UNCHANGED <<doc, selRanges>>
  /\ UNCHANGED hlVars

\* The user types one more character into the dialog's input
TypeChar ==
  /\ PanelOpen
  /\ focus = "input"
  /\ Len(input) < MaxInputLen
  /\ \E c \in InputChars : input' = Append(input, c)
  /\ lastEvent' = "type"
  /\ lastTx' = NoTx
  /\ pre' = NoSnapshot
  /\ lastGo' = NoGo
  /\ UNCHANGED <<doc, selRanges, dialog, focus, lastProto>>
  /\ UNCHANGED hlVars

----------------------------------------------------------------------------
(* Selection-match highlighter                                             *)

\* The fixed maximum length of a selection that is searched for
MaxSelectionLength == 200

\* A document one longer than two selections of the maximum length
LongDoc == [i \in 1..(2 * MaxSelectionLength + 1) |-> "a"]

Absent == <<>>

\* defaultHighlightOptions
DefaultConf == [highlightWordAroundCursor |-> FALSE, minSelectionLength |-> 1,
                maxMatches |-> 100]

\* The combining functions of the options: || for the flag, Math.min for
\* the two numbers
Combine(key, a, b) ==
  IF key = "highlightWordAroundCursor" THEN a \/ b ELSE Min(a, b)

\* One option of the combined configuration: the values given, combined from
\* left to right, or the default when no contribution gives one
RECURSIVE CombineOption(_, _, _)
CombineOption(options, key, default) ==
  IF options = <<>> THEN default
  ELSE LET rest == SubSeq(options, 1, Len(options) - 1)
           last == options[Len(options)][key]
       IN IF last = Absent THEN CombineOption(rest, key, default)
          ELSE IF \A i \in 1..Len(rest) : rest[i][key] = Absent THEN last[1]
          ELSE Combine(key, CombineOption(rest, key, default), last[1])

\* highlightConfig.combine
CombineConfig(options) ==
  [highlightWordAroundCursor |->
     CombineOption(options, "highlightWordAroundCursor",
                   DefaultConf.highlightWordAroundCursor),
   minSelectionLength |->
     CombineOption(options, "minSelectionLength", DefaultConf.minSelectionLength),
   maxMatches |->
     CombineOption(options, "maxMatches", DefaultConf.maxMatches)]

\* state.charCategorizer(pos): letters are word characters, blanks are space
CharCategory(ch) ==
  IF ch \in {"a", "b", "f", "o", "r"} THEN "Word"
  ELSE IF ch \in {" ", NL} THEN "Space"
  ELSE "Other"

\* wordAt: the run of word characters around pos within its line, <<>> for
\* null.  Every character is one grapheme cluster, so findClusterBreak moves by
\* one; the loops stop at the first character that is not a word character.
WordAt(d, pos) ==
  LET line == LineAt(d, pos)
      start == pos - line.from
      from == CHOOSE f \in 0..start :
                /\ \A i \in (f + 1)..start : CharCategory(line.text[i]) = "Word"
                /\ (f = 0 \/ CharCategory(line.text[f]) # "Word")
      to == CHOOSE t \in start..line.length :
              /\ \A i \in (start + 1)..t : CharCategory(line.text[i]) = "Word"
              /\ (t = line.length \/ CharCategory(line.text[t + 1]) # "Word")
  IN IF from = to THEN <<>> ELSE SubSeq(line.text, from + 1, to)

\* String.prototype.trim
Trim(str) ==
  LET solid == {i \in 1..Len(str) : CharCategory(str[i]) # "Space"}
  IN IF solid = {} THEN <<>>
     ELSE SubSeq(str, CHOOSE i \in solid : \A j \in solid : i <= j,
                      CHOOSE i \in solid : \A j \in solid : i >= j)

\* new SearchCursor(doc, query, from, to), read to its end: the occurrences of
\* query within [from, to), leftmost first, each search resuming at the end of
\* the match before
RECURSIVE SearchCursor(_, _, _, _)
SearchCursor(d, query, from, to) ==
  LET occ == {p \in from..(to - Len(query)) : SubSeq(d, p + 1, p + Len(query)) = query}
  IN IF query = <<>> \/ occ = {} THEN <<>>
     ELSE LET p == CHOOSE x \in occ : \A y \in occ : x <= y
          IN <<[from |-> p, to |-> p + Len(query)]>>
               \o SearchCursor(d, query, p + Len(query), to)

\* The matches of all visible ranges, in the order the loops meet them
RECURSIVE VisibleMatches(_, _, _)
VisibleMatches(d, query, parts) ==
  IF parts = <<>> THEN <<>>
  ELSE SearchCursor(d, query, parts[1].from, parts[1].to)
         \o VisibleMatches(d, query, Tail(parts))

\* A guard that looks only at the character before a match
WholeWord_BeforeOnly(d, from, to) ==
  from = 0 \/ CharCategory(SliceDoc(d, from - 1, from)[1]) # "Word"

\* The guard on the characters next to a match, with a categorizer
WholeWord(d, from, to) ==
  /\ from = 0 \/ CharCategory(SliceDoc(d, from - 1, from)[1]) # "Word"
  /\ to = DocLength(d) \/ CharCategory(SliceDoc(d, to, to + 1)[1]) # "Word"

\* A guard that excludes both boundary lengths
LengthOutOfBounds_Exclusive(len, cf) ==
  len <= cf.minSelectionLength \/ len >= MaxSelectionLength

\* The guard on the length of a non-empty selection
LengthOutOfBounds(len, cf) ==
  len < cf.minSelectionLength \/ len > MaxSelectionLength

\* A cutoff that already applies at the maximum
TooMany_AtLimit(count, cf) == count >= cf.maxMatches

\* The cutoff
TooMany(count, cf) == count > cf.maxMatches

MainDeco(from, to) == [from |-> from, to |-> to, main |-> TRUE]
MatchDeco(from, to) == [from |-> from, to |-> to, main |-> FALSE]

\* A classification that keeps every match as a regular decoration
Push_AlwaysRegular(deco, check, range, from, to) ==
  Append(deco, MatchDeco(from, to))

\* A classification without a main decoration
Push_NeverMain(deco, check, range, from, to) ==
  IF check /\ from <= RangeFrom(range) /\ to >= RangeTo(range)
  THEN Append(deco, MatchDeco(from, to))
  ELSE IF from >= RangeTo(range) \/ to <= RangeFrom(range)
  THEN Append(deco, MatchDeco(from, to))
  ELSE deco

\* The decorations a match adds
Push(deco, check, range, from, to) ==
  IF check /\ from <= RangeFrom(range) /\ to >= RangeTo(range)
  THEN Append(deco, MainDeco(from, to))
  ELSE IF from >= RangeTo(range) \/ to <= RangeFrom(range)
  THEN Append(deco, MatchDeco(from, to))
  ELSE deco

\* The two loops of getDeco from match i on: [none] is the early return
RECURSIVE Collect(_, _, _, _, _, _, _)
Collect(d, matches, i, deco, check, range, cf) ==
  IF i > Len(matches) THEN [none |-> FALSE, deco |-> deco]
  ELSE LET from == matches[i].from
           to == matches[i].to
       IN IF ~check \/ WholeWord(d, from, to)
          THEN LET next == Push(deco, check, range, from, to)
               IN IF TooMany(Len(next), cf) THEN [none |-> TRUE, deco |-> <<>>]
                  ELSE Collect(d, matches, i + 1, next, check, range, cf)
          ELSE Collect(d, matches, i + 1, deco, check, range, cf)

\* The query of a selection: [found, query, check]
QueryOf(d, ranges, cf) ==
  LET range == ranges[1]
      none == [found |-> FALSE, query |-> <<>>, check |-> FALSE]
  IN IF Len(ranges) > 1 THEN none
     ELSE IF RangeEmpty(range)
     THEN IF ~cf.highlightWordAroundCursor THEN none
          ELSE LET query == WordAt(d, range.head)
               IN IF query = <<>> THEN none
                  ELSE [found |-> TRUE, query |-> query, check |-> TRUE]
     ELSE IF LengthOutOfBounds(RangeTo(range) - RangeFrom(range), cf) THEN none
          ELSE LET query == Trim(SliceDoc(d, RangeFrom(range), RangeTo(range)))
               IN IF query = <<>> THEN none
                  ELSE [found |-> TRUE, query |-> query, check |-> FALSE]

\* getDeco: the sequence of decorations, <<>> for Decoration.none
GetDeco(d, ranges, parts, cf) ==
  LET q == QueryOf(d, ranges, cf)
  IN IF ~q.found THEN <<>>
     ELSE Collect(d, VisibleMatches(d, q.query, parts), 1, <<>>, q.check,
                  ranges[1], cf).deco

\* update(update): the decorations after an update to the view's new state
Update(selectionSet, docChanged, viewportChanged, d, ranges, parts) ==
  IF selectionSet \/ docChanged \/ viewportChanged
  THEN GetDeco(d, ranges, parts, conf)
  ELSE decorations

----------------------------------------------------------------------------
(* The host of the highlighter: configuration, selections, viewports       *)

Range(from, to) == [anchor |-> from, head |-> to]
Part(from, to) == [from |-> from, to |-> to]

HLDocs == SeqsUpTo(HLChars, MaxDocLen) \cup {ScenarioDoc, CompoundDoc, LongDoc}

\* What one contribution to the configuration may give
OptionValues(S) == {Absent} \cup {<<v>> : v \in S}
Options ==
  [highlightWordAroundCursor : OptionValues(BOOLEAN),
   minSelectionLength : OptionValues(1..MaxMinSelectionLength),
   maxMatches : OptionValues(1..MaxMaxMatches)]

\* The selections a short document goes through: the user moves the head or
\* the anchor of a forward range by one character, adds a second cursor next to
\* a cursor, or drops it again
SelectionMoves(d, ranges) ==
  LET a == ranges[1].anchor
      h == ranges[1].head
  IN IF Len(ranges) > 1 THEN {<<ranges[1]>>}
     ELSE {<<Range(a, x)>> : x \in {h - 1, h + 1} \cap a..Len(d)}
            \cup {<<Range(x, h)>> : x \in {a - 1, a + 1} \cap 0..h}
            \cup (IF a = h /\ h < Len(d) THEN {<<Cursor(h), Cursor(h + 1)>>} ELSE {})

\* The selections tried on the scenario's document (its words, the middle
\* word with its blanks, a cursor in a word), on the compound document (a
\* cursor in its first word, and that word) and on the long document (the
\* ranges around the maximum length, and a cursor)
SelectionsTried(d) ==
  IF d = CompoundDoc THEN {<<Cursor(1)>>, <<Range(0, 3)>>}
  ELSE IF d = ScenarioDoc
  THEN {<<Range(0, 3)>>, <<Range(8, 11)>>, <<Range(3, 8)>>, <<Cursor(1)>>,
        <<Cursor(5)>>, <<Cursor(11)>>}
  ELSE {<<Range(0, MaxSelectionLength - 1)>>, <<Range(0, MaxSelectionLength)>>,
        <<Range(0, MaxSelectionLength + 1)>>, <<Range(1, MaxSelectionLength + 1)>>,
        <<Cursor(0)>>}

Selections(d, ranges) ==
  IF Len(d) <= MaxDocLen THEN SelectionMoves(d, ranges) ELSE SelectionsTried(d)

\* The visible ranges a short document goes through: one range, or two with a
\* gap between them that reach the ends of the document; an edge moves by one
\* character, a gap opens in the fully visible document, or closes
ViewportMoves(d, parts) ==
  IF Len(parts) = 1
  THEN LET f == parts[1].from
           t == parts[1].to
       IN {<<Part(x, t)>> : x \in {f - 1, f + 1} \cap 0..t}
            \cup {<<Part(f, x)>> : x \in {t - 1, t + 1} \cap f..Len(d)}
            \cup (IF f = 0 /\ t = Len(d)
                  THEN {<<Part(0, x), Part(x + 1, Len(d))>> : x \in 0..(Len(d) - 1)}
                  ELSE {})
  ELSE LET t == parts[1].to
           f == parts[2].from
       IN {<<Part(0, x), parts[2]>> : x \in {t - 1, t + 1} \cap 0..(f - 1)}
            \cup {<<parts[1], Part(x, Len(d))>> : x \in {f - 1, f + 1} \cap (t + 1)..Len(d)}
            \cup {<<Part(0, Len(d))>>}

\* The visible ranges tried on the longer documents: all of it, or its halves
ViewportsTried(d) ==
  {<<Part(0, Len(d))>>,
   <<Part(0, Len(d) \div 2), Part(Len(d) \div 2 + 1, Len(d))>>} \ {visibleRanges}

Viewports(d, parts) ==
  IF Len(d) <= MaxDocLen THEN ViewportMoves(d, parts) ELSE ViewportsTried(d)

\* A position after the insertion of one character at offset at
MapPos(pos, at, after) == IF pos > at \/ (after /\ pos = at) THEN pos + 1 ELSE pos

InitHL ==
  /\ doc \in HLDocs
  /\ \E options \in SeqsUpTo(Options, 2) : conf = CombineConfig(options)
  /\ selRanges = <<Cursor(0)>>
  /\ visibleRanges = <<Part(0, Len(doc))>>
  /\ decorations = GetDeco(doc, selRanges, visibleRanges, conf)
  /\ dialog = [present |-> FALSE, value |-> FALSE]
  /\ input = <<>>
  /\ focus = "editor"
  /\ lastEvent = "init"
  /\ lastProto = "init"
  /\ lastTx = NoTx
  /\ pre = NoSnapshot
  /\ lastGo = NoGo

\* A transaction that sets the selection
Select ==
  /\ \E s \in Selections(doc, selRanges) :
       /\ selRanges' = s
       /\ decorations' = Update(TRUE, FALSE, FALSE, doc, s, visibleRanges)
  /\ UNCHANGED <<doc, conf, visibleRanges>>
  /\ UNCHANGED gotoVars

\* The view scrolls or folds: other ranges become visible
Scroll ==
  /\ \E v \in Viewports(doc, visibleRanges) :
       /\ visibleRanges' = v
       /\ decorations' = Update(FALSE, FALSE, TRUE, doc, selRanges, v)
  /\ UNCHANGED <<doc, conf, selRanges>>
  /\ UNCHANGED gotoVars

\* The user types one character at the cursor
Insert ==
  /\ Len(doc) < MaxDocLen
  /\ Len(selRanges) = 1
  /\ RangeEmpty(SelMain)
  /\ \E c \in HLChars :
       LET at == SelMain.head
           d == SubSeq(doc, 1, at) \o <<c>> \o SubSeq(doc, at + 1, Len(doc))
           s == <<Cursor(at + 1)>>
           v == [i \in 1..Len(visibleRanges) |->
                   Part(MapPos(visibleRanges[i].from, at, FALSE),
                        MapPos(visibleRanges[i].to, at, TRUE))]
       IN /\ doc' = d
          /\ selRanges' = s
          /\ visibleRanges' = v
          /\ decorations' = Update(TRUE, TRUE, FALSE, d, s, v)
  /\ UNCHANGED conf
  /\ UNCHANGED gotoVars

\* An update that changes neither selection, document nor viewport
Refocus ==
  /\ decorations' = Update(FALSE, FALSE, FALSE, doc, selRanges, visibleRanges)
  /\ UNCHANGED <<doc, conf, selRanges, visibleRanges>>
  /\ UNCHANGED gotoVars

NextHL ==
  \/ Select
  \/ Scroll
  \/ Insert
  \/ Refocus

SpecHL == InitHL /\ [][NextHL]_vars



InitGoto ==
  /\ doc \in SeqsUpTo(GotoDocChars, MaxGotoDocLen) \cup {TallDoc}
  /\ \E p \in 0..Len(doc) : selRanges = <<Cursor(p)>>
  /\ dialog = [present |-> FALSE, value |-> FALSE]
  /\ input = <<>>
  /\ focus = "editor"
  /\ lastEvent = "init"
  /\ lastProto = "init"
  /\ lastTx = NoTx
  /\ pre = NoSnapshot
  /\ lastGo = NoGo
  /\ conf = DefaultConf
  /\ visibleRanges = <<>>
  /\ decorations = <<>>

NextGoto ==
  \/ GotoLine
  \/ KeyEscape
  \/ KeyEnter
  \/ Submit
  \/ TypeChar

SpecGoto == InitGoto /\ [][NextGoto]_vars

----------------------------------------------------------------------------
(* Goto-line: properties                                                   *)

\* What the most recent call of go() read and did
GoMatch == Exec(lastGo[1].input)
GoStartLine == lastGo[1].startLine
GoHead == selRanges[1].head
Clamp(lo, hi, v) == Max(lo, Min(hi, v))

\* C1: after every accepted submit the selection is exactly one empty cursor
\* at an offset p with 0 <= p <= document.length, and
\* p = L.from + min(max(col, 0), L.length) for the line L numbered
\* max(1, min(totalLines, resolvedLine)), so p lies on the target line.
C1_PositionSafety ==
  lastEvent = "accepted" =>
    LET n == DocLines(doc)
        L == DocLine(doc, Clamp(1, n, ResolveLine(GoMatch, GoStartLine, n)))
        col == ResolveCol(GoMatch)
    IN /\ Len(selRanges) = 1
       /\ selRanges[1].anchor = GoHead
       /\ lastTx.selection = selRanges
       /\ 0 <= GoHead /\ GoHead <= DocLength(doc)
       /\ GoHead = L.from + Min(Max(col, 0), L.length)
       /\ L.from <= GoHead /\ GoHead <= L.to
       /\ LineAt(doc, GoHead).number = L.number

\* C1 witness: an accepted submit whose line and column were both beyond the
\* document and were clamped
C1_Witness ==
  /\ lastEvent = "accepted"
  /\ ResolveLine(GoMatch, GoStartLine, DocLines(doc)) > DocLines(doc)
  /\ ResolveCol(GoMatch) > LineAt(doc, GoHead).length
  /\ LineAt(doc, GoHead).length > 0

\* Exact arithmetic: the integer nearest to num / den (den > 0), halves up
RoundHalfUp(num, den) == (2 * num + den) \div (2 * den)

\* The target line the grammar's precedence gives for magnitude digits ln,
\* sign and percent flag, at current line c of n lines, in exact arithmetic
ExactLine(m, c, n) ==
  LET mag == ToNumber(m.ln)
      sg == IF m.sign = <<"-">> THEN -1 ELSE 1
  IN CASE m.ln # <<>> /\ m.percent # <<>> /\ m.sign = <<>> -> RoundHalfUp(n * mag, 100)
       [] m.ln # <<>> /\ m.percent # <<>> /\ m.sign # <<>> ->
            RoundHalfUp(100 * c + sg * n * mag, 100)
       [] m.ln # <<>> /\ m.percent = <<>> /\ m.sign # <<>> -> c + sg * mag
       [] m.ln # <<>> /\ m.percent = <<>> /\ m.sign = <<>> -> mag
       [] OTHER -> c

\* C2: after every accepted submit the cursor is on the line that the
\* grammar's precedence gives: round(n*m/100) for "m%", round(n*(c/n + s*m/100))
\* for a signed "m%", c + s*m for a signed m, m for a bare m, and c without a
\* magnitude, clamped into [1, n].
C2_ExactResolution ==
  lastEvent = "accepted" =>
    LineAt(doc, GoHead).number
      = Clamp(1, DocLines(doc), ExactLine(GoMatch, GoStartLine, DocLines(doc)))

\* The declarative reading of the grammar ^([+-])?(\d+)?(:\d+)?(%)?$ : the
\* input splits into an optional sign, digits, an optional colon with at
\* least one digit, and an optional percent sign
InGrammar(s) ==
  \E i \in 0..Min(1, Len(s)) : \E j \in i..Len(s) : \E k \in j..Len(s) :
    /\ i = 1 => s[1] \in {"+", "-"}
    /\ \A t \in (i + 1)..j : s[t] \in Digits
    /\ \/ k = j
       \/ k >= j + 2 /\ s[j + 1] = ":" /\ \A t \in (j + 2)..k : s[t] \in Digits
    /\ \/ k = Len(s)
       \/ k = Len(s) - 1 /\ s[Len(s)] = "%"

\* C3: when the submitted input does not match the grammar, go() dispatches
\* no transaction: the selection, the document and the dialog flag are as they
\* were on entry, and the dialog stays open with the input kept.
C3_RejectChangesNothing ==
  (lastGo # NoGo /\ ~InGrammar(lastGo[1].input)) =>
    /\ lastEvent = "rejected"
    /\ lastTx = NoTx
    /\ selRanges = pre[1].selRanges
    /\ doc = pre[1].doc
    /\ dialog = pre[1].dialog
    /\ PanelOpen
    /\ input = lastGo[1].input

\* C3 witness: the input "+-5" was submitted and rejected
C3_Witness ==
  /\ lastEvent = "rejected"
  /\ lastGo # NoGo
  /\ lastGo[1].input = <<"+", "-", "5">>
  /\ input = <<"+", "-", "5">>

NoLineNoColumn ==
  /\ lastEvent = "accepted"
  /\ GoMatch.ln = Undefined
  /\ GoMatch.cl = Undefined

\* C7 as claimed: with neither a line magnitude nor a column the selection
\* head after go() equals the selection head before it.
C7_HeadUnchanged ==
  NoLineNoColumn => GoHead = pre[1].selRanges[1].head

\* C7 as amended: with neither a line magnitude nor a column the target line
\* is the current line and the cursor goes to its column 0: the head after
\* go() is the start of the line that held the head before, which is the old
\* head only when the cursor already was at the start of its line.
C7_HeadToLineStart ==
  NoLineNoColumn =>
    LET before == pre[1].selRanges[1].head
    IN /\ LineAt(doc, GoHead).number = GoStartLine
       /\ LineAt(doc, before).number = GoStartLine
       /\ GoHead = LineAt(doc, before).from
       /\ (GoHead = before) <=> (before = LineAt(doc, before).from)

\* C7 witness: a sign-and-percent-only input submitted with the cursor in
\* the middle of the second line
C7_Witness ==
  /\ NoLineNoColumn
  /\ lastGo[1].input = <<"+", "%">>
  /\ GoStartLine = 2
  /\ pre[1].selRanges[1].head > GoHead

\* C10: the dialog is open exactly when the most recent of the events
\* gotoLine, Escape and accepted submit was gotoLine; gotoLine leaves it open
\* and dispatches nothing when it already was; Escape closes it and keeps the
\* selection; an accepted submit closes it in the transaction that moves the
\* cursor.
C10_DialogProtocol ==
  /\ PanelOpen <=> lastProto = "gotoLine"
  /\ lastEvent = "gotoLine" =>
       /\ PanelOpen
       /\ focus = "input"
       /\ selRanges = pre[1].selRanges
       /\ IF pre[1].dialog.present /\ pre[1].dialog.value
          THEN lastTx = NoTx /\ dialog = pre[1].dialog
          ELSE lastTx.dispatched /\ lastTx.effects = <<TRUE>> /\ lastTx.selection = <<>>
  /\ lastEvent = "escape" =>
       /\ ~PanelOpen
       /\ lastTx.dispatched /\ lastTx.selection = <<>>
       /\ selRanges = pre[1].selRanges
  /\ lastEvent = "accepted" =>
       /\ ~PanelOpen
       /\ lastTx.dispatched
       /\ lastTx.effects = <<FALSE>>
       /\ lastTx.selection = selRanges
  /\ lastEvent = "rejected" => PanelOpen /\ lastTx = NoTx

\* C10 witness: the gotoLine command run while the dialog was open, after an
\* earlier Escape or submit had closed it once
C10_Witness ==
  /\ lastEvent = "gotoLine"
  /\ pre[1].dialog.present /\ pre[1].dialog.value
  /\ input # <<>>
  /\ lastTx = NoTx

----------------------------------------------------------------------------
(* Properties of the selection-match highlighter                           *)

SingleRange == Len(selRanges) = 1
NonEmptySelection == SingleRange /\ ~RangeEmpty(SelMain)
CursorWordMode == SingleRange /\ RangeEmpty(SelMain) /\ conf.highlightWordAroundCursor

IsWordChar(d, i) == i \in 1..Len(d) /\ CharCategory(d[i]) = "Word"
IsBlank(ch) == ch \in {" ", NL}

\* The maximal run of word characters around offset p, as a span
WordRun(d, p) ==
  [from |-> CHOOSE f \in 0..p : /\ \A i \in (f + 1)..p : IsWordChar(d, i)
                                /\ ~IsWordChar(d, f),
   to |-> CHOOSE t \in p..Len(d) : /\ \A i \in (p + 1)..t : IsWordChar(d, i)
                                   /\ ~IsWordChar(d, t + 1)]

\* The text that is searched for in the current state
CurrentQuery == QueryOf(doc, selRanges, conf)
\* Its occurrences in the visible ranges
Occurrences == VisibleMatches(doc, CurrentQuery.query, visibleRanges)

Overlaps(m, range) == m.from < RangeTo(range) /\ m.to > RangeFrom(range)
Contains(m, range) == m.from <= RangeFrom(range) /\ m.to >= RangeTo(range)

\* The occurrences that count as decorations: whole words in cursor-word
\* mode, and the word at the cursor or an occurrence clear of the selection
Counted ==
  {i \in 1..Len(Occurrences) :
     LET m == Occurrences[i]
     IN IF CurrentQuery.check
        THEN /\ ~IsWordChar(doc, m.from)
             /\ ~IsWordChar(doc, m.to + 1)
        ELSE ~Overlaps(m, SelMain)}

Mains == {i \in 1..Len(decorations) : decorations[i].main}

\* C4 as stated: with a single non-empty selection the match that is the
\* selection itself is emitted as a regular decoration; for "foo bar foo",
\* selection [8,11), minSelectionLength 1 and the whole document visible the
\* pass returns regular decorations at [0,3) and [8,11)
C4_Scenario ==
  /\ doc = ScenarioDoc
  /\ selRanges = <<Range(8, 11)>>
  /\ visibleRanges = <<Part(0, Len(ScenarioDoc))>>
  /\ conf.minSelectionLength = 1
  /\ conf.maxMatches >= 2

C4_SelfMatchEmitted ==
  C4_Scenario => decorations = <<MatchDeco(0, 3), MatchDeco(8, 11)>>

\* C4 amended: with a single non-empty selection no decoration overlaps the
\* selection, so the match that is the selection itself is not emitted; in
\* the scenario the pass returns the one regular decoration at [0,3)
C4_SelfMatchSkipped ==
  /\ NonEmptySelection =>
       \A i \in 1..Len(decorations) :
         /\ ~decorations[i].main
         /\ ~Overlaps(decorations[i], SelMain)
  /\ C4_Scenario => decorations = <<MatchDeco(0, 3)>>

C4_Witness ==
  /\ C4_Scenario
  /\ decorations = <<MatchDeco(0, 3)>>

C5_WitnessCutoff ==
  /\ CurrentQuery.found
  /\ Cardinality(Counted) = conf.maxMatches + 1
  /\ decorations = <<>>

\* The selected text, and the regular decorations of its occurrences that
\* are clear of the selection
SelectedText == SliceDoc(doc, RangeFrom(SelMain), RangeTo(SelMain))
SelectionLength == RangeTo(SelMain) - RangeFrom(SelMain)
ClearOfSelection(m) == ~Overlaps(m, SelMain)
OtherOccurrences ==
  LET found == SelectSeq(VisibleMatches(doc, Trim(SelectedText), visibleRanges),
                         ClearOfSelection)
  IN [i \in 1..Len(found) |-> MatchDeco(found[i].from, found[i].to)]

\* C6: a pass returns no decorations when the selection has more than one
\* range, is a cursor while highlightWordAroundCursor is false, is a cursor
\* with no word character before or after it, is a range shorter than
\* minSelectionLength or longer than 200, or is a range of blanks; a single
\* range of a length from minSelectionLength to 200 that holds a non-blank
\* character is searched for: its occurrences clear of the selection are
\* the decorations when they number at most maxMatches
C6_Gating ==
  /\ ~SingleRange => decorations = <<>>
  /\ SingleRange /\ RangeEmpty(SelMain) /\ ~conf.highlightWordAroundCursor
       => decorations = <<>>
  /\ SingleRange /\ RangeEmpty(SelMain)
       /\ ~IsWordChar(doc, SelMain.head) /\ ~IsWordChar(doc, SelMain.head + 1)
       => decorations = <<>>
  /\ NonEmptySelection
       /\ (SelectionLength < conf.minSelectionLength
             \/ SelectionLength > MaxSelectionLength)
       => decorations = <<>>
  /\ NonEmptySelection /\ (\A i \in 1..Len(SelectedText) : IsBlank(SelectedText[i]))
       => decorations = <<>>
  /\ NonEmptySelection
       /\ SelectionLength >= conf.minSelectionLength
       /\ SelectionLength <= MaxSelectionLength
       /\ (\E i \in 1..Len(SelectedText) : ~IsBlank(SelectedText[i]))
       /\ Len(OtherOccurrences) <= conf.maxMatches
       => decorations = OtherOccurrences

\* A selection of exactly 200 characters whose other occurrence is decorated
C6_Witness ==
  /\ doc = LongDoc
  /\ selRanges = <<Range(0, MaxSelectionLength)>>
  /\ decorations # <<>>
  /\ decorations = OtherOccurrences

\* The other boundaries: 201 characters, and the minimum and one below it
C6_WitnessTooLong ==
  /\ doc = LongDoc
  /\ selRanges = <<Range(0, MaxSelectionLength + 1)>>
  /\ decorations = <<>>

C6_WitnessMinimum ==
  /\ NonEmptySelection
  /\ conf.minSelectionLength > 1
  /\ SelectionLength = conf.minSelectionLength
  /\ decorations # <<>>

C6_WitnessTooShort ==
  /\ NonEmptySelection
  /\ SelectionLength = conf.minSelectionLength - 1
  /\ ~IsBlank(SelectedText[1])
  /\ Len(OtherOccurrences) \in 1..conf.maxMatches
  /\ decorations = <<>>

\* C8: every decoration lies inside a visible range and covers text equal
\* to the query; the decorations are in order and do not overlap; in
\* cursor-word mode the characters next to a decoration are not word
\* characters
C8_Soundness ==
  \A i \in 1..Len(decorations) :
    LET x == decorations[i]
    IN /\ \E k \in 1..Len(visibleRanges) :
            visibleRanges[k].from <= x.from /\ x.to <= visibleRanges[k].to
       /\ CurrentQuery.found
       /\ SliceDoc(doc, x.from, x.to) = CurrentQuery.query
       /\ CurrentQuery.query =
            IF RangeEmpty(SelMain)
            THEN SliceDoc(doc, WordRun(doc, SelMain.head).from,
                          WordRun(doc, SelMain.head).to)
            ELSE Trim(SelectedText)
       /\ x.from < x.to
       /\ \A j \in (i + 1)..Len(decorations) : x.to <= decorations[j].from
       /\ RangeEmpty(SelMain) =>
            ~IsWordChar(doc, x.from) /\ ~IsWordChar(doc, x.to + 1)

\* The word at the cursor is decorated while a longer word that begins with
\* it is not
C8_Witness ==
  /\ doc = CompoundDoc
  /\ CursorWordMode
  /\ Len(Occurrences) = 2
  /\ decorations = <<MainDeco(0, 3)>>

C8_WitnessTwoRanges ==
  /\ CursorWordMode
  /\ Len(visibleRanges) = 2
  /\ Len(decorations) = 2

\* C9: in cursor-word mode, when the word at the cursor lies inside one
\* visible range and no more than maxMatches matches count, there is exactly
\* one main decoration, it spans the run of word characters around the
\* cursor, and no other decoration touches the cursor; a pass never returns
\* two main decorations, and none for a non-empty selection
C9_MainDecoration ==
  LET p == SelMain.head
      w == WordRun(doc, p)
  IN /\ Cardinality(Mains) <= 1
     /\ NonEmptySelection => Mains = {}
     /\ CursorWordMode /\ w.from < w.to
          /\ (\E k \in 1..Len(visibleRanges) :
                visibleRanges[k].from <= w.from /\ w.to <= visibleRanges[k].to)
          /\ Cardinality(Counted) <= conf.maxMatches
          => /\ Cardinality(Mains) = 1
             /\ \A i \in 1..Len(decorations) :
                  IF i \in Mains
                  THEN decorations[i] = MainDeco(w.from, w.to)
                  ELSE decorations[i].from > p \/ decorations[i].to < p

C9_Witness ==
  /\ CursorWordMode
  /\ Cardinality(Mains) = 1
  /\ Len(decorations) = 2
  /\ decorations[2].main

=============================================================================
